---------------------------- MODULE Spec2Model ----------------------------
(***************************************************************************)
(* Model of electron_simulation.py: the trajectory integrator              *)
(* simulate_trajectory and the sweep driver main.                          *)
(*                                                                         *)
(* Numbers.  The program computes in IEEE double precision.  The model     *)
(* keeps the three kinds of non-finite double (NaN, +inf, -inf) and their  *)
(* propagation rules, and represents a finite double by an exact rational  *)
(* n/d in lowest terms.  Rounding and overflow of finite values are not    *)
(* modelled: statements about finite values are statements about the       *)
(* arithmetic the program performs, exact up to rounding.  Two values are  *)
(* equal when they are the same double (a NaN equals a NaN); the ordering  *)
(* tests FGt and FLe follow IEEE and are false on a NaN.                   *)
(***************************************************************************)
EXTENDS Integers, Sequences, FiniteSets, TLC

VARIABLES
    args,       \* the arguments of the running simulate_trajectory call
    pos,        \* pos   (line 49): <<x, y>> in metres
    vel,        \* vel   (line 50): <<vx, vy>> in metres/second
    x_traj,     \* x_traj (line 51): recorded x-coordinates, centimetres
    y_traj,     \* y_traj (line 52): recorded y-coordinates, centimetres
    vels,       \* history: the velocity line 61 left, one entry per iteration
    poss,       \* history: the position line 62 left, one entry per iteration
    pc,         \* position of the integrator: "idle", "loop", "break", "done"
    ret,        \* the value returned at line 72, <<x_traj, y_traj>>, or <<>>
    rets,       \* history: the values returned so far, one per finished call
    mpc,        \* position of main (lines 95-148)
    axis,       \* the sweep axis (panel) main is at, 1 .. 4; 5 when all are done
    idx,        \* index of the current entry of the current sweep axis
    xy,         \* the trajectories main holds: x, y (x1, y1, x2, y2 in axis 4)
    panels,     \* axs: panel -> the series plotted on it so far
    finalized,  \* the panels setup_axes has been called on
    calls       \* history: the integrator invocations made by main, in order

vars == <<args, pos, vel, x_traj, y_traj, vels, poss, pc, ret, rets,
          mpc, axis, idx, xy, panels, finalized, calls>>

mainVars == <<mpc, axis, idx, xy, panels, finalized, calls>>

-----------------------------------------------------------------------------
(* Bounds of the model *)

\* The largest step budget (argument steps) a modelled call is given.
MaxSteps == 3

\* The step budget of the calls the modelled sweep makes (stands for steps = 5000).
SweepSteps == 2

-----------------------------------------------------------------------------
(* Double-precision values *)

Abs(n) == IF n < 0 THEN -n ELSE n

GCD[a \in Nat, b \in Nat] == IF b = 0 THEN a ELSE GCD[b, a % b]

\* A finite value n/d in lowest terms with d > 0.
Fin(n, d) ==
    LET g == GCD[Abs(n), Abs(d)]
        s == IF d < 0 THEN -1 ELSE 1
    IN  [k |-> "fin", n |-> s * (n \div g), d |-> s * (d \div g)]

Num(n) == [k |-> "fin", n |-> n, d |-> 1]
NaN    == [k |-> "nan", n |-> 0, d |-> 1]
PInf   == [k |-> "inf", n |-> 1, d |-> 1]
NInf   == [k |-> "inf", n |-> -1, d |-> 1]

IsFinite(a) == a.k = "fin"
IsNaN(a)    == a.k = "nan"
Sign(a)     == IF a.n > 0 THEN 1 ELSE IF a.n < 0 THEN -1 ELSE 0
InfOf(s)    == IF s > 0 THEN PInf ELSE NInf

\* IEEE negation.
FNeg(a) == [a EXCEPT !.n = -a.n]

\* IEEE addition: NaN propagates, inf + (-inf) = NaN.
FAdd(a, b) ==
    IF IsNaN(a) \/ IsNaN(b) THEN NaN
    ELSE IF a.k = "inf" /\ b.k = "inf" THEN (IF a.n = b.n THEN a ELSE NaN)
    ELSE IF a.k = "inf" THEN a
    ELSE IF b.k = "inf" THEN b
    ELSE Fin(a.n * b.d + b.n * a.d, a.d * b.d)

\* IEEE multiplication: NaN propagates, inf * 0 = NaN.
FMul(a, b) ==
    IF IsNaN(a) \/ IsNaN(b) THEN NaN
    ELSE IF a.k = "inf" \/ b.k = "inf"
         THEN (IF Sign(a) * Sign(b) = 0 THEN NaN ELSE InfOf(Sign(a) * Sign(b)))
    ELSE Fin(a.n * b.n, a.d * b.d)

\* IEEE division as numpy performs it (a warning, no exception):
\* x/0 = +-inf, 0/0 = NaN, inf/inf = NaN, x/inf = 0.
FDiv(a, b) ==
    IF IsNaN(a) \/ IsNaN(b) THEN NaN
    ELSE IF b.k = "inf" THEN (IF a.k = "inf" THEN NaN ELSE Num(0))
    ELSE IF b.n = 0 THEN (IF Sign(a) = 0 THEN NaN ELSE InfOf(Sign(a)))
    ELSE IF a.k = "inf" THEN InfOf(Sign(a) * Sign(b))
    ELSE Fin(a.n * b.d, a.d * b.n)

\* IEEE a > b: false whenever an operand is NaN.
FGt(a, b) ==
    IF IsNaN(a) \/ IsNaN(b) THEN FALSE
    ELSE IF a.k = "inf" THEN a.n > 0 /\ b # PInf
    ELSE IF b.k = "inf" THEN b.n < 0
    ELSE a.n * b.d > b.n * a.d

\* IEEE a <= b: false whenever an operand is NaN.
FLe(a, b) == ~IsNaN(a) /\ ~IsNaN(b) /\ ~FGt(a, b)

-----------------------------------------------------------------------------
(* simulate_trajectory, lines 34-72 *)

\* cutoff_distance (line 32), metres.
cutoff_distance == 20

\* The centimetres per metre of lines 65-66.
CmPerM == 100

\* Faulty variant of Cross2: the cross product taken as B x v (both signs flipped).
Cross2_WrongSign(v, Bz) == <<FNeg(FMul(v[2], Bz)), FMul(v[1], Bz)>>

\* np.cross(vel, [0, 0, Bz])[:2] (line 57): for a 2-vector a and a 3-vector b
\* numpy computes cp0 = a1*b2 and cp1 = -(a0*b2).
Cross2(v, Bz) == <<FMul(v[2], Bz), FNeg(FMul(v[1], Bz))>>

\* Faulty variant of Force: the magnitude of the charge used, its sign dropped.
Force_AbsCharge(q, v, Bz) ==
    <<FMul(Num(Abs(q.n)), FMul(v[2], Bz)),
      FMul(Num(Abs(q.n)), FNeg(FMul(v[1], Bz)))>>

\* Faulty variant of Force: the factor q left out.
Force_NoCharge(q, v, Bz) == <<FMul(v[2], Bz), FNeg(FMul(v[1], Bz))>>

\* F = q * np.cross(vel, [0, 0, Bz])[:2] (line 57).
Force(q, v, Bz) == <<FMul(q, Cross2(v, Bz)[1]), FMul(q, Cross2(v, Bz)[2])>>

\* Faulty variant of Accel: the force multiplied by the mass.
Accel_TimesMass(F, m) == <<FMul(F[1], m), FMul(F[2], m)>>

\* a = F / m (line 60).
Accel(F, m) == <<FDiv(F[1], m), FDiv(F[2], m)>>

\* vel += a * dt (line 61).
VelUpdate(v, a, dt) == <<FAdd(v[1], FMul(a[1], dt)), FAdd(v[2], FMul(a[2], dt))>>

\* pos += vel * dt (line 62), vel being the value line 61 left.
PosUpdate(p, v, dt) == <<FAdd(p[1], FMul(v[1], dt)), FAdd(p[2], FMul(v[2], dt))>>

\* pos[0] * 100, pos[1] * 100 (lines 65-66).
ToCm(p) == <<FMul(p[1], Num(CmPerM)), FMul(p[2], Num(CmPerM))>>

\* np.linalg.norm(pos) > cutoff_distance (line 69).  The norm is
\* sqrt(x*x + y*y); the square root is monotone, keeps +inf and NaN, and the
\* cutoff is positive, so the test is x*x + y*y > cutoff_distance^2.
SqNorm(p) == FAdd(FMul(p[1], p[1]), FMul(p[2], p[2]))
Exceeds(p) == FGt(SqNorm(p), Num(cutoff_distance * cutoff_distance))

\* Faulty variant of InRange: one iteration too many (range(steps + 1)).
InRange_Inclusive(n, steps) == n <= steps

\* Faulty variant of InRange: no step budget (while True).
InRange_NoBudget(n, steps) == TRUE

\* for _ in range(steps) (line 54): after n iterations another one follows.
InRange(n, steps) == n < steps

\* simulate_trajectory(v0, q, m, Bz, steps, dt) is entered with arguments a:
\* lines 49-52 leave the state at the head of the loop.
Enter(a) ==
    /\ pc = "idle"
    /\ args' = a
    /\ pos' = <<Num(0), Num(0)>>
    /\ vel' = <<a.v0, Num(0)>>
    /\ x_traj' = <<>>
    /\ y_traj' = <<>>
    /\ vels' = <<>>
    /\ poss' = <<>>
    /\ pc' = "loop"
    /\ UNCHANGED <<ret, rets>>

\* One iteration of the for loop, lines 54-70, statement by statement:
\* F (line 57), a (line 60), v = vel after line 61, p = pos after line 62.
Step ==
    /\ pc = "loop"
    /\ InRange(Len(x_traj), args.steps)
    /\ \E F \in {Force(args.q, vel, args.Bz)} :
       \E a \in {Accel(F, args.m)} :
       \E v \in {VelUpdate(vel, a, args.dt)} :
       \E p \in {PosUpdate(pos, v, args.dt)} :
          /\ vel' = v
          /\ pos' = p
          /\ x_traj' = Append(x_traj, ToCm(p)[1])
          /\ y_traj' = Append(y_traj, ToCm(p)[2])
          /\ vels' = Append(vels, v)
          /\ poss' = Append(poss, p)
          /\ pc' = IF Exceeds(p) THEN "break" ELSE "loop"
    /\ UNCHANGED <<args, ret, rets, mainVars>>

\* Line 72, reached when range(steps) is exhausted or by the break of line 70.
Return ==
    /\ \/ pc = "break"
       \/ pc = "loop" /\ ~InRange(Len(x_traj), args.steps)
    /\ ret' = <<x_traj, y_traj>>
    /\ rets' = Append(rets, ret')
    /\ pc' = "done"
    /\ UNCHANGED <<args, pos, vel, x_traj, y_traj, vels, poss, mainVars>>

-----------------------------------------------------------------------------
(* The integrator called with arbitrary arguments *)

\* The argument values a modelled call draws from: both signs and zero of
\* each argument, a mass other than 1, and speeds and time steps that reach
\* the cutoff at the first step, at a later step, or not at all.
V0Set    == {-3, 0, 3, 12}
QSet     == {-1, 0, 1}
MSet     == {-1, 0, 1, 2}
BzSet    == {-1, 0, 1}
DtSet    == {-1, 0, 1, 4}
StepsSet == 0 .. MaxSteps

Args(v0, q, m, Bz, dt, steps) ==
    [v0 |-> Num(v0), q |-> Num(q), m |-> Num(m), Bz |-> Num(Bz),
     dt |-> Num(dt), steps |-> steps]

\* main is not running.
NoMain ==
    /\ mpc = "none"
    /\ axis = 0
    /\ idx = 0
    /\ xy = <<>>
    /\ panels = <<>>
    /\ finalized = {}
    /\ calls = <<>>

\* No call is running.
NoArgs == Args(0, 0, 0, 0, 0, 0)

\* A caller invokes the integrator with any arguments.
Call ==
    \E v0 \in V0Set, q \in QSet, m \in MSet, Bz \in BzSet, dt \in DtSet,
       steps \in StepsSet :
        Enter(Args(v0, q, m, Bz, dt, steps)) /\ UNCHANGED mainVars

Init ==
    /\ args = NoArgs
    /\ pc = "idle"
    /\ pos = <<Num(0), Num(0)>>
    /\ vel = <<Num(0), Num(0)>>
    /\ x_traj = <<>>
    /\ y_traj = <<>>
    /\ vels = <<>>
    /\ poss = <<>>
    /\ ret = <<>>
    /\ rets = <<>>
    /\ NoMain

Next == Call \/ Step \/ Return

Spec == Init /\ [][Next]_vars

\* The loop has no suspension point: once a call is entered, its next
\* iteration and its return are eventually taken.
FairSpec == Spec /\ WF_vars(Step) /\ WF_vars(Return)

-----------------------------------------------------------------------------
(* simulate_trajectory as a function of its arguments *)

\* The loop of lines 54-72 from the state (p, v, xs, ys) on.
RECURSIVE Loop(_, _, _, _, _)
Loop(a, p, v, xs, ys) ==
    IF ~InRange(Len(xs), a.steps) THEN <<xs, ys>>
    ELSE LET F  == Force(a.q, v, a.Bz)
             v2 == VelUpdate(v, Accel(F, a.m), a.dt)
             p2 == PosUpdate(p, v2, a.dt)
             xs2 == Append(xs, ToCm(p2)[1])
             ys2 == Append(ys, ToCm(p2)[2])
         IN  IF Exceeds(p2) THEN <<xs2, ys2>> ELSE Loop(a, p2, v2, xs2, ys2)

\* simulate_trajectory(v0, q, m, Bz, steps, dt), lines 34-72.
simulate_trajectory(a) ==
    Loop(a, <<Num(0), Num(0)>>, <<a.v0, Num(0)>>, <<>>, <<>>)

\* Lines 136-138 with any arguments in place of main's: the same call made
\* with charge -q (x1, y1) and with charge q (x2, y2).
ChargePair ==
    /\ xy = <<>>
    /\ \E v0 \in V0Set, q \in QSet, m \in MSet, Bz \in BzSet, dt \in DtSet,
          steps \in StepsSet :
        /\ args' = Args(v0, q, m, Bz, dt, steps)
        /\ xy' = simulate_trajectory([args' EXCEPT !.q = FNeg(@)])
                    \o simulate_trajectory(args')
    /\ UNCHANGED <<pos, vel, x_traj, y_traj, vels, poss, pc, ret, rets,
                   mpc, axis, idx, panels, finalized, calls>>

MirrorSpec == Init /\ [][ChargePair]_vars

\* The function and the step-by-step run agree on what a call returns.
LoopAgreesWithSteps == pc = "done" => ret = simulate_trajectory(args)

-----------------------------------------------------------------------------
(* main, lines 95-148.  Quantities are written in the units the sweep     *)
(* tables use: field strength in mT, energy in eV, mass in units of me,   *)
(* charge in units of e.  A trajectory point is represented by its run    *)
(* and step number, and the outcome of the cutoff test of line 69 is left *)
(* open, since the sweep's runs are not computed numerically here.        *)

\* Ek_default (line 30), eV.
Ek_default == 20

\* B_default (line 31), mT.
B_default == 2

\* The number of sweep axes (panels of the 2x2 grid, line 98).
NumAxes == 4

\* The lists of lines 107, 116, 125 and the two charges of lines 136, 138.
FieldAxis  == <<1, 2, 5>>
EnergyAxis == <<10, 20, 40>>
MassAxis   == <<1, 2, 4>>
ChargeAxis == <<-1, 1>>

AxisLen(ax) ==
    CASE ax = 1 -> Len(FieldAxis)
      [] ax = 2 -> Len(EnergyAxis)
      [] ax = 3 -> Len(MassAxis)
      [] ax = 4 -> Len(ChargeAxis)

\* np.sqrt(2 * Ek * e / m) (lines 108, 117, 126, 134), kept symbolic.
V0(Ek, m) == [sqrt2e |-> "Ek/m", Ek |-> Ek, m |-> m]

\* Faulty variant of SweepArgs: the mass axis takes v0 from the electron mass.
SweepArgs_V0FromMe(ax, i) ==
    CASE ax = 1 -> [v0 |-> V0(Ek_default, 1), q |-> -1, m |-> 1,
                    Bz |-> FieldAxis[i], steps |-> SweepSteps, dt |-> "dt"]
      [] ax = 2 -> [v0 |-> V0(EnergyAxis[i], 1), q |-> -1, m |-> 1,
                    Bz |-> B_default, steps |-> SweepSteps, dt |-> "dt"]
      [] ax = 3 -> [v0 |-> V0(Ek_default, 1), q |-> -1, m |-> MassAxis[i],
                    Bz |-> B_default, steps |-> SweepSteps, dt |-> "dt"]
      [] ax = 4 -> [v0 |-> V0(Ek_default, 1), q |-> ChargeAxis[i], m |-> 1,
                    Bz |-> B_default, steps |-> SweepSteps, dt |-> "dt"]

\* The arguments of the call main makes for entry i of axis ax (lines 109,
\* 118, 127, 136, 138); steps and dt take their defaults.
SweepArgs(ax, i) ==
    CASE ax = 1 -> [v0 |-> V0(Ek_default, 1), q |-> -1, m |-> 1,
                    Bz |-> FieldAxis[i], steps |-> SweepSteps, dt |-> "dt"]
      [] ax = 2 -> [v0 |-> V0(EnergyAxis[i], 1), q |-> -1, m |-> 1,
                    Bz |-> B_default, steps |-> SweepSteps, dt |-> "dt"]
      [] ax = 3 -> [v0 |-> V0(Ek_default, MassAxis[i]), q |-> -1,
                    m |-> MassAxis[i],
                    Bz |-> B_default, steps |-> SweepSteps, dt |-> "dt"]
      [] ax = 4 -> [v0 |-> V0(Ek_default, 1), q |-> ChargeAxis[i], m |-> 1,
                    Bz |-> B_default, steps |-> SweepSteps, dt |-> "dt"]

\* The label of the series of entry i of axis ax (lines 111, 120, 129, 139-140).
Label(ax, i) ==
    CASE ax = 1 -> <<"B", FieldAxis[i]>>
      [] ax = 2 -> <<"E", EnergyAxis[i]>>
      [] ax = 3 -> <<"m", MassAxis[i]>>
      [] ax = 4 -> <<"q", ChargeAxis[i]>>

\* main computes v0 and calls simulate_trajectory for the current entry.
MainCall ==
    /\ mpc = "for"
    /\ axis <= NumAxes
    /\ idx <= AxisLen(axis)
    /\ Enter(SweepArgs(axis, idx))
    /\ calls' = Append(calls, SweepArgs(axis, idx))
    /\ mpc' = "wait"
    /\ UNCHANGED <<axis, idx, xy, panels, finalized>>

\* One iteration of the for loop of lines 54-70 of the call main is waiting
\* for: the point of this step is recorded, then the cutoff test decides.
SweepStep ==
    /\ mpc = "wait"
    /\ pc = "loop"
    /\ InRange(Len(x_traj), args.steps)
    /\ x_traj' = Append(x_traj, <<"x", Len(calls), Len(x_traj) + 1>>)
    /\ y_traj' = Append(y_traj, <<"y", Len(calls), Len(y_traj) + 1>>)
    /\ \E exceeds \in BOOLEAN : pc' = IF exceeds THEN "break" ELSE "loop"
    /\ UNCHANGED <<args, pos, vel, vels, poss, ret, rets, mainVars>>

\* x, y = simulate_trajectory(...): main receives the returned trajectory.
\* In axis 4 both trajectories are received (lines 136, 138) before plotting.
Assign ==
    /\ mpc = "wait"
    /\ pc = "done"
    /\ pc' = "idle"
    /\ IF axis = NumAxes
       THEN /\ xy' = (IF idx = 1 THEN <<>> ELSE xy) \o ret
            /\ idx' = IF idx < AxisLen(axis) THEN idx + 1 ELSE 1
            /\ mpc' = IF idx < AxisLen(axis) THEN "for" ELSE "plot"
       ELSE /\ xy' = ret
            /\ idx' = idx
            /\ mpc' = "plot"
    /\ UNCHANGED <<args, pos, vel, x_traj, y_traj, vels, poss, ret, rets,
                   axis, panels, finalized, calls>>

\* axs[..].plot(x, y, label=...) (lines 110, 119, 128, 139, 140).
Plot ==
    /\ mpc = "plot"
    /\ LET k == IF axis = NumAxes THEN 2 * idx - 1 ELSE 1
       IN  panels' = [panels EXCEPT ![axis] =
                Append(@, [x |-> xy[k], y |-> xy[k + 1],
                           label |-> Label(axis, idx)])]
    /\ idx' = idx + 1
    /\ mpc' = IF axis = NumAxes /\ idx < AxisLen(axis) THEN "plot" ELSE "for"
    /\ UNCHANGED <<args, pos, vel, x_traj, y_traj, vels, poss, pc, ret, rets,
                   axis, xy, finalized, calls>>

\* setup_axes(axs[..], title) (lines 112, 121, 130, 141) once the axis's
\* entries are exhausted; main moves on to the next axis.
SetupAxes ==
    /\ mpc = "for"
    /\ axis <= NumAxes
    /\ idx > AxisLen(axis)
    /\ finalized' = finalized \cup {axis}
    /\ axis' = axis + 1
    /\ idx' = 1
    /\ UNCHANGED <<args, pos, vel, x_traj, y_traj, vels, poss, pc, ret, rets,
                   mpc, xy, panels, calls>>

\* Lines 144-148: the figure is saved and shown.
Save ==
    /\ mpc = "for"
    /\ axis > NumAxes
    /\ mpc' = "end"
    /\ UNCHANGED <<args, pos, vel, x_traj, y_traj, vels, poss, pc, ret, rets,
                   axis, idx, xy, panels, finalized, calls>>

\* The state at line 105, the figure with its four empty panels created.
SweepInit ==
    /\ args = NoArgs
    /\ pc = "idle"
    /\ pos = <<Num(0), Num(0)>>
    /\ vel = <<Num(0), Num(0)>>
    /\ x_traj = <<>>
    /\ y_traj = <<>>
    /\ vels = <<>>
    /\ poss = <<>>
    /\ ret = <<>>
    /\ rets = <<>>
    /\ mpc = "for"
    /\ axis = 1
    /\ idx = 1
    /\ xy = <<>>
    /\ panels = [ax \in 1 .. NumAxes |-> <<>>]
    /\ finalized = {}
    /\ calls = <<>>

SweepNext ==
    \/ MainCall
    \/ SweepStep
    \/ Return
    \/ Assign
    \/ Plot
    \/ SetupAxes
    \/ Save

SweepSpec == SweepInit /\ [][SweepNext]_vars

-----------------------------------------------------------------------------
(* Properties of the integrator *)

Zero == Num(0)
Steps == Len(poss)
Sq(a) == FMul(a, a)
CutoffSq == Num(cutoff_distance * cutoff_distance)

\* dt * q * Bz / m, the rotation per step of the velocity update.
Kappa == FDiv(FMul(FMul(args.q, args.Bz), args.dt), args.m)

RECURSIVE FPow(_, _)
FPow(a, n) == IF n = 0 THEN Num(1) ELSE FMul(a, FPow(a, n - 1))

\* C1: the returned trajectory has at most steps points (none when steps = 0),
\* and fewer than steps points exactly when the position exceeded the cutoff
\* at a step numbered below steps.
C1_LengthBound ==
    /\ Len(x_traj) <= args.steps
    /\ Len(y_traj) = Len(x_traj)
    /\ pc = "done" =>
          /\ ret = <<x_traj, y_traj>>
          /\ Len(ret[1]) < args.steps
                <=> \E n \in 1 .. Steps : n < args.steps /\ Exceeds(poss[n])

C1_Witness ==
    /\ pc = "done"
    /\ Len(ret[1]) >= 1
    /\ Len(ret[1]) < args.steps

\* C2: a call with m <= 0 or dt <= 0 runs no integration step, records no
\* point and returns no trajectory.
C2_InvalidParameterRaised ==
    (~FGt(args.m, Zero) \/ ~FGt(args.dt, Zero)) =>
        /\ Steps = 0
        /\ x_traj = <<>> /\ y_traj = <<>>
        /\ pc # "done"

\* C3: a step that leaves a non-finite position is the last step of its run.
NonFinite(p) == ~IsFinite(p[1]) \/ ~IsFinite(p[2])

C3_NonFiniteTerminates ==
    \A n \in 1 .. Steps : NonFinite(poss[n]) => n = Steps

\* C4 as claimed: with v0, q, m, Bz nonzero and the cutoff never reached, the
\* speed equals |v0| after every step and every position lies on the circle
\* of radius r = m*v0/(|q|*|Bz|) centred at (0, r) or (0, -r).
AllNonzero == args.v0 # Zero /\ args.q # Zero /\ args.m # Zero /\ args.Bz # Zero
NeverExceeded == \A n \in 1 .. Steps : ~Exceeds(poss[n])
Radius == FDiv(FMul(args.m, args.v0), FMul(args.q, args.Bz))
OnCircle(p, r) == FAdd(Sq(p[1]), Sq(FAdd(p[2], FNeg(r)))) = Sq(r)

C4_SpeedConstant ==
    (AllNonzero /\ NeverExceeded) =>
        \A n \in 1 .. Steps :
            /\ SqNorm(vels[n]) = Sq(args.v0)
            /\ OnCircle(poss[n], Radius) \/ OnCircle(poss[n], FNeg(Radius))

\* C4 as amended: with v0, q, m, Bz nonzero and the cutoff never reached,
\* every step multiplies the squared speed by 1 + (q*Bz*dt/m)^2, so for
\* dt # 0 the speed grows strictly from step to step (an outward spiral).
C4_SpeedGrows ==
    (AllNonzero /\ NeverExceeded) =>
        \A n \in 1 .. Steps :
            /\ SqNorm(vels[n])
                  = FMul(Sq(args.v0), FPow(FAdd(Num(1), Sq(Kappa)), n))
            /\ args.dt # Zero =>
                  FGt(SqNorm(vels[n]),
                      IF n = 1 THEN Sq(args.v0) ELSE SqNorm(vels[n - 1]))

C4_Witness ==
    /\ AllNonzero /\ NeverExceeded
    /\ args.dt # Zero
    /\ pc = "done"
    /\ Steps >= 2
    /\ FGt(SqNorm(vels[Steps]), SqNorm(vels[1]))

\* C6: with q = 0 and m nonzero every recorded y is 0, the velocity stays
\* (v0, 0), the n-th recorded point is (100*n*v0*dt, 0), and the run returns.
C6_StraightLine ==
    (args.q = Zero /\ args.m # Zero /\ pc # "idle") =>
        /\ vel = <<args.v0, Zero>>
        /\ \A n \in 1 .. Len(x_traj) :
              /\ y_traj[n] = Zero
              /\ x_traj[n] = FMul(Num(CmPerM * n), FMul(args.v0, args.dt))
              /\ vels[n] = <<args.v0, Zero>>
        /\ pc = "done" => ret = <<x_traj, y_traj>>

C6_Witness ==
    /\ args.q = Zero /\ args.m # Zero /\ args.Bz # Zero
    /\ args.v0 # Zero /\ args.dt # Zero
    /\ pc = "done"
    /\ Len(ret[1]) >= 2

\* C7: every run ends and returns, after at most steps iterations, and it
\* leaves the loop only with the budget used up or the cutoff exceeded.
C7_Terminates ==
    /\ (pc = "loop") ~> (pc = "done")
    /\ [](Steps <= args.steps)
    /\ [][(pc = "loop" /\ pc' # "loop") =>
             (Len(x_traj') = args.steps \/ Exceeds(pos'))]_vars

C7_Witness ==
    /\ pc = "done"
    /\ Steps = args.steps
    /\ Steps >= 2
    /\ NonFinite(pos)

\* C9: every recorded point but the last lies within the cutoff distance
\* (norm <= cutoff_distance), and a point beyond the cutoff is the last one.
WithinCutoff(p) == FLe(SqNorm(p), CutoffSq)

C9_InclusiveCutoff ==
    /\ \A n \in 1 .. Steps - 1 : WithinCutoff(poss[n])
    /\ \A n \in 1 .. Steps : Exceeds(poss[n]) =>
          /\ n = Steps
          /\ Len(x_traj) = n
          /\ <<x_traj[n], y_traj[n]>> = ToCm(poss[n])

\* C10: the run starts from position (0,0) and velocity (v0,0); step n takes
\* the force from the velocity before the step (Fx = q*vy*Bz, Fy = -q*vx*Bz),
\* adds (F/m)*dt to the velocity, then adds the new velocity times dt to the
\* position, and records 100 times the new position.
VelBefore(n) == IF n = 1 THEN <<args.v0, Zero>> ELSE vels[n - 1]
PosBefore(n) == IF n = 1 THEN <<Zero, Zero>> ELSE poss[n - 1]

RECURSIVE SumVelDt(_, _)
SumVelDt(n, c) ==
    IF n = 0 THEN Zero ELSE FAdd(SumVelDt(n - 1, c), FMul(vels[n][c], args.dt))

C10_StepOrder ==
    \A n \in 1 .. Steps :
        LET v0_ == VelBefore(n)
            Fx == FMul(args.q, FMul(v0_[2], args.Bz))
            Fy == FNeg(FMul(args.q, FMul(v0_[1], args.Bz)))
        IN  /\ vels[n][1] = FAdd(v0_[1], FMul(FDiv(Fx, args.m), args.dt))
            /\ vels[n][2] = FAdd(v0_[2], FMul(FDiv(Fy, args.m), args.dt))
            /\ poss[n][1] = FAdd(PosBefore(n)[1], FMul(vels[n][1], args.dt))
            /\ poss[n][2] = FAdd(PosBefore(n)[2], FMul(vels[n][2], args.dt))
            /\ x_traj[n] = FMul(Num(CmPerM), SumVelDt(n, 1))
            /\ y_traj[n] = FMul(Num(CmPerM), SumVelDt(n, 2))

C10_Witness ==
    /\ AllNonzero /\ args.dt # Zero
    /\ pc = "done"
    /\ Steps >= 2
    /\ vels[2] # vels[1]

-----------------------------------------------------------------------------
(* Properties of the charge pair and of the sweep *)

\* C5: two runs that differ only in the sign of q return trajectories of the
\* same length, with equal x-coordinates and opposite y-coordinates at every
\* index (so they hit the cutoff at the same step or not at all).
C5_MirrorImage ==
    xy # <<>> =>
        LET x1 == xy[1]  y1 == xy[2]  x2 == xy[3]  y2 == xy[4]
        IN  /\ Len(x1) = Len(x2)
            /\ Len(y1) = Len(y2)
            /\ Len(x1) = Len(y1)
            /\ \A i \in 1 .. Len(x1) : x1[i] = x2[i] /\ y1[i] = FNeg(y2[i])

C5_Witness ==
    /\ xy # <<>>
    /\ args.q # Zero /\ args.m # Zero
    /\ Len(xy[1]) >= 2
    /\ Len(xy[1]) < args.steps
    /\ xy[2][2] # Zero
    /\ xy[2][2] # xy[4][2]

\* C8: main calls the integrator once per axis entry, in the order field
\* {1,2,5} mT, energy {10,20,40} eV, mass {1,2,4} me, charge {-e,+e} (11
\* calls), each with v0 from the entry's own energy and mass and defaults
\* elsewhere; a series is plotted only from a trajectory its call has
\* returned, and a panel is finalized only with all its series on it.
ExpectedCalls ==
    <<[v0 |-> V0(20, 1), q |-> -1, m |-> 1, Bz |-> 1],
      [v0 |-> V0(20, 1), q |-> -1, m |-> 1, Bz |-> 2],
      [v0 |-> V0(20, 1), q |-> -1, m |-> 1, Bz |-> 5],
      [v0 |-> V0(10, 1), q |-> -1, m |-> 1, Bz |-> 2],
      [v0 |-> V0(20, 1), q |-> -1, m |-> 1, Bz |-> 2],
      [v0 |-> V0(40, 1), q |-> -1, m |-> 1, Bz |-> 2],
      [v0 |-> V0(20, 1), q |-> -1, m |-> 1, Bz |-> 2],
      [v0 |-> V0(20, 2), q |-> -1, m |-> 2, Bz |-> 2],
      [v0 |-> V0(20, 4), q |-> -1, m |-> 4, Bz |-> 2],
      [v0 |-> V0(20, 1), q |-> -1, m |-> 1, Bz |-> 2],
      [v0 |-> V0(20, 1), q |-> 1, m |-> 1, Bz |-> 2]>>

\* The number of calls made for the axes before ax.
CallsBefore(ax) == IF ax = 1 THEN 0 ELSE IF ax = 2 THEN 3 ELSE IF ax = 3 THEN 6 ELSE 9
SeriesOf(ax) == IF ax = 4 THEN 2 ELSE 3

C8_SweepOrder ==
    /\ Len(calls) <= Len(ExpectedCalls)
    /\ \A j \in 1 .. Len(calls) :
          /\ [f \in {"v0", "q", "m", "Bz"} |-> calls[j][f]] = ExpectedCalls[j]
          /\ calls[j].steps = SweepSteps /\ calls[j].dt = "dt"
    /\ mpc = "end" => Len(calls) = Len(ExpectedCalls)
    /\ \A ax \in 1 .. NumAxes :
          /\ Len(panels[ax]) <= SeriesOf(ax)
          /\ \A k \in 1 .. Len(panels[ax]) :
                /\ CallsBefore(ax) + k <= Len(rets)
                /\ <<panels[ax][k].x, panels[ax][k].y>> = rets[CallsBefore(ax) + k]
          /\ ax \in finalized => Len(panels[ax]) = SeriesOf(ax)
    /\ Len(rets) <= Len(calls)
    /\ pc \in {"loop", "break"} => Len(rets) = Len(calls) - 1

C8_Witness ==
    /\ mpc = "end"
    /\ finalized = 1 .. NumAxes
    /\ Len(calls) = 11
    /\ \E k \in 1 .. 2 : Len(panels[4][k].x) = SweepSteps
    /\ \E k \in 1 .. 3 : Len(panels[3][k].x) < SweepSteps

=============================================================================
